---- MODULE Spec2Model ----
(***************************************************************************)
(* A model of the tracing core of autograd (src/autograd/tracer.py):       *)
(* the trace stack, the box registry, boxes and nodes, the primitive       *)
(* wrapper with its re-entrant resolution of nested traces, the notrace    *)
(* registry and the trace() entry point; and of unary_to_nary              *)
(* (src/autograd/wrap_util.py), whose use is the specification NarySpec.   *)
(*                                                                         *)
(* A value is a record [ty, n]: ty is its runtime type, n its payload: the *)
(* number of a raw value, or the index in `boxes` of a box.  Nodes and     *)
(* boxes live in two heaps, `nodes` and `boxes`; an index never changes.   *)
(* Argument positions (argnums) are 0-based as in the source; position p   *)
(* of a Python tuple is element p + 1 of the sequence that models it.      *)
(***************************************************************************)
EXTENDS Integers, Sequences, FiniteSets, TLC

VARIABLES
    top,                \* trace_stack.top
    frames,             \* the active invocations of trace(), outermost first
    nodes,              \* every node constructed so far
    boxes,              \* every box constructed so far
    type_mappings,      \* Box.type_mappings: type -> box class
    box_types,          \* Box.types
    notrace_primitives, \* node type -> set of primitives
    last,               \* the last operation: its inputs and what it returned
    nary                \* the invocation of nary_f (wrap_util.py) in progress

vars == <<top, frames, nodes, boxes, type_mappings, box_types,
          notrace_primitives, last, nary>>

----------------------------------------------------------------------------
(* Bounds of the model.                                                    *)

MaxTop == 2
MaxNodes == 3
MaxArgs == 2
MaxNaryArgs == 3
MaxArgnum == 2
MaxEvals == 2
MaxChain == 2

----------------------------------------------------------------------------
(* The inputs: raw values, box classes, node types, primitives.            *)

NoneV == [ty |-> "NoneType", n |-> 0]
FloatVals == {[ty |-> "float", n |-> 1]}
StrVals == {[ty |-> "str", n |-> 0]}
RawValues == FloatVals \cup StrVals
ArgRawValues == FloatVals

BoxClasses == {"FloatBox"}
RegTypes == {"float"}
NodeTypes == {"VJPNode", "JVPNode"}
Prims == {"add", "fmt"}
NotracePrims == {"add"}
NotraceTypes == {"JVPNode"}

\* The box at index i of the heap, as a value (FloatBox is the one box class).
BoxRef(i) == [ty |-> "FloatBox", n |-> i]
AllValues == RawValues \cup {BoxRef(i) : i \in 1..Len(boxes)}
ArgValues == ArgRawValues \cup {BoxRef(i) : i \in 1..Len(boxes)}
ArgLists == UNION {[1..k -> ArgValues] : k \in 0..MaxArgs}
\* The keyword argument of a call: none, or the oldest box.
KwValues == {NoneV} \cup {BoxRef(i) : i \in 1..Len(boxes) \cap {1}}
\* The calls made: "fmt" takes one operand, "add" any number of them; a
\* keyword argument comes with at most one positional argument.
Calls == {c \in [op : Prims, args : ArgLists, kwargs : KwValues] :
             /\ c.op = "fmt" => Len(c.args) = 1
             /\ c.kwargs # NoneV => Len(c.args) <= 1}

----------------------------------------------------------------------------
(* Boxes.                                                                  *)

\* isbox = lambda x: type(x) in box_types
isbox(x) == x.ty \in box_types

\* Box.__init__, reached through box_type_mappings[type(value)](value, trace, node)
Box(cls, value, trace, node) ==
    [cls |-> cls, value |-> value, trace |-> trace, node |-> node]

\* The text of the TypeError of new_box: it names type(value).
new_box_message(value) == <<"Can't differentiate w.r.t. type", value.ty>>

\* new_box wrapping a value of any type, in a FloatBox on a registry miss.
new_box_any(value, trace, node, bs) ==
    LET cls == IF value.ty \in DOMAIN type_mappings
               THEN type_mappings[value.ty] ELSE "FloatBox"
    IN [err |-> "none",
        boxes |-> Append(bs, Box(cls, value, trace, node)),
        out |-> [ty |-> cls, n |-> Len(bs) + 1]]

\* new_box: a registry hit appends the box to the heap bs; a miss (KeyError)
\* raises TypeError and constructs nothing.
new_box(value, trace, node, bs) ==
    IF value.ty \in DOMAIN type_mappings
    THEN [err |-> "none",
          boxes |-> Append(bs, Box(type_mappings[value.ty], value, trace, node)),
          out |-> [ty |-> type_mappings[value.ty], n |-> Len(bs) + 1]]
    ELSE [err |-> "TypeError", boxes |-> bs, out |-> NoneV]

\* getval unwrapping one level only.
getval_once(x, bs) == IF isbox(x) THEN bs[x.n].value ELSE x

\* getval = lambda x: getval(x._value) if isbox(x) else x
RECURSIVE getval(_, _)
getval(x, bs) == IF isbox(x) THEN getval(bs[x.n].value, bs) ELSE x

----------------------------------------------------------------------------
(* Nodes.                                                                  *)

\* Node.new_root: a node of class cls with no parents.
new_root(cls, value) ==
    [variant |-> cls, fun |-> "root", parent_argnums |-> <<>>, parents |-> <<>>]

\* node_constructor(ans, f_wrapped, argvals, kwargs, argnums, parents).  The
\* abstract Node.__init__ stores nothing; of what a node type stores the
\* model keeps the operation, the tracked argnums and the parents.
Node(cls, value, fun, args, kwargs, parent_argnums, parents) ==
    [variant |-> cls, fun |-> fun, parent_argnums |-> parent_argnums,
     parents |-> parents]

----------------------------------------------------------------------------
(* The raw functions handed to primitive().  They see positional arguments *)
(* and ignore the keyword argument.  "add" sums floats and fails on any    *)
(* other operand; "fmt" formats anything as a str.                         *)

RECURSIVE SumOf(_, _)
SumOf(args, i) == IF i > Len(args) THEN 0 ELSE args[i].n + SumOf(args, i + 1)

f_raw(op, args, kwargs) ==
    IF op = "add"
    THEN IF Len(args) > 0 /\ \A i \in 1..Len(args) : args[i].ty = "float"
         THEN [err |-> "none", out |-> [ty |-> "float", n |-> (SumOf(args, 1) % 2) + 1]]
         ELSE [err |-> "raised", out |-> NoneV]
    ELSE [err |-> "none", out |-> [ty |-> "str", n |-> 0]]

----------------------------------------------------------------------------
(* find_top_boxed_args.                                                    *)

\* FindStep keeping the first boxed argument seen, whatever its trace.
FindStepFirstWins(acc, argnum, arg, bs, ns) ==
    IF isbox(arg) /\ acc.boxes = <<>>
    THEN [boxes |-> <<[argnum |-> argnum, box |-> arg]>>,
          trace |-> bs[arg.n].trace,
          node_type |-> ns[bs[arg.n].node].variant]
    ELSE acc

\* FindStep with the tracked list reset on a tie as well (>= for >).
FindStepResetOnTie(acc, argnum, arg, bs, ns) ==
    IF isbox(arg) /\ bs[arg.n].trace >= acc.trace
    THEN [boxes |-> <<[argnum |-> argnum, box |-> arg]>>,
          trace |-> bs[arg.n].trace,
          node_type |-> ns[bs[arg.n].node].variant]
    ELSE acc

\* One iteration of the loop (lines 124-131) on the locals acc.
FindStep(acc, argnum, arg, bs, ns) ==
    IF isbox(arg)
    THEN LET trace == bs[arg.n].trace IN
         IF trace > acc.trace
         THEN [boxes |-> <<[argnum |-> argnum, box |-> arg]>>,
               trace |-> trace,
               node_type |-> ns[bs[arg.n].node].variant]
         ELSE IF trace = acc.trace
         THEN [acc EXCEPT !.boxes = Append(@, [argnum |-> argnum, box |-> arg])]
         ELSE acc
    ELSE acc

\* The loop over enumerate(args), from element i on.
RECURSIVE FindLoop(_, _, _, _, _)
FindLoop(args, i, acc, bs, ns) ==
    IF i > Len(args)
    THEN acc
    ELSE FindLoop(args, i + 1, FindStep(acc, i - 1, args[i], bs, ns), bs, ns)

\* top_trace = -1, top_boxes = [], top_node_type = None
NoFound == [boxes |-> <<>>, trace |-> -1, node_type |-> "NoneType"]

find_top_boxed_args(args, bs, ns) == FindLoop(args, 1, NoFound, bs, ns)

----------------------------------------------------------------------------
(* The primitive wrapper.                                                  *)

\* subvals(x, ivs): x with x[i] = v for each (i, v) of ivs.
subvals(x, ivs) ==
    [p \in 1..Len(x) |->
        IF \E k \in 1..Len(ivs) : ivs[k].argnum = p - 1
        THEN LET k == CHOOSE k \in 1..Len(ivs) :
                          /\ ivs[k].argnum = p - 1
                          /\ \A j \in 1..Len(ivs) : ivs[j].argnum = p - 1 => j <= k
             IN ivs[k].val
        ELSE x[p]]

\* [(argnum, box._value) for argnum, box in boxed_args]
UnboxedPairs(boxed_args, bs) ==
    [k \in 1..Len(boxed_args) |->
        [argnum |-> boxed_args[k].argnum, val |-> bs[boxed_args[k].box.n].value]]

\* ParentsOf listing the nodes from the last tracked box to the first.
ParentsOf_reversed(boxed_args, bs) ==
    [k \in 1..Len(boxed_args) |->
        bs[boxed_args[Len(boxed_args) + 1 - k].box.n].node]

\* tuple(box._node for _, box in boxed_args)
ParentsOf(boxed_args, bs) ==
    [k \in 1..Len(boxed_args) |-> bs[boxed_args[k].box.n].node]

\* ArgnumsOf counting positions from one.
ArgnumsOf_from_one(boxed_args) ==
    [k \in 1..Len(boxed_args) |-> boxed_args[k].argnum + 1]

\* tuple(argnum for argnum, _ in boxed_args)
ArgnumsOf(boxed_args) == [k \in 1..Len(boxed_args) |-> boxed_args[k].argnum]

\* direct_call with the result recorded and boxed like a tracked one.
direct_call_boxing(op, args, kwargs, ns, bs, calls) ==
    LET r == f_raw(op, args, kwargs)
        ns2 == Append(ns, Node("VJPNode", r.out, op, args, kwargs, <<>>, <<>>))
        b == new_box(r.out, top, Len(ns2), bs)
    IN [err |-> r.err, out |-> b.out, nodes |-> ns2, boxes |-> b.boxes,
        calls |-> Append(calls, [args |-> args, kwargs |-> kwargs])]

\* Line 83, no boxed argument: return f_raw(*args, **kwargs).  calls is the
\* list of the invocations of f_raw made so far.
direct_call(op, args, kwargs, ns, bs, calls) ==
    LET r == f_raw(op, args, kwargs) IN
    [err |-> r.err, out |-> r.out, nodes |-> ns, boxes |-> bs,
     calls |-> Append(calls, [args |-> args, kwargs |-> kwargs])]

\* boxed_result storing the node over the newest node instead of appending.
boxed_result_overwriting(op, found, argvals, kwargs, r, bs) ==
    LET node == Node(found.node_type, r.out, op, argvals, kwargs,
                     ArgnumsOf(found.boxes), ParentsOf(found.boxes, bs))
        ns2 == [r.nodes EXCEPT ![Len(r.nodes)] = node]
        b == new_box(r.out, found.trace, Len(ns2), r.boxes)
    IN [err |-> b.err, out |-> b.out, nodes |-> ns2, boxes |-> b.boxes,
        calls |-> r.calls]

\* boxed_result storing the result in the first tracked box, in place,
\* instead of building a box for it.
boxed_result_in_place(op, found, argvals, kwargs, r, bs) ==
    LET node == Node(found.node_type, r.out, op, argvals, kwargs,
                     ArgnumsOf(found.boxes), ParentsOf(found.boxes, bs))
        ns2 == Append(r.nodes, node)
        i == found.boxes[1].box.n
    IN [err |-> "none", out |-> found.boxes[1].box, nodes |-> ns2,
        boxes |-> [r.boxes EXCEPT ![i] = Box(@.cls, r.out, found.trace, Len(ns2))],
        calls |-> r.calls]

\* Lines 75-79, after ans = f_wrapped(*argvals, **kwargs) returned r: the node
\* and the box of the result.
boxed_result(op, found, argvals, kwargs, r, bs) ==
    LET ans == r.out
        parents == ParentsOf(found.boxes, bs)
        argnums == ArgnumsOf(found.boxes)
        node == Node(found.node_type, ans, op, argvals, kwargs, argnums, parents)
        ns2 == Append(r.nodes, node)
        b == new_box(ans, found.trace, Len(ns2), r.boxes)
    IN [err |-> b.err, out |-> b.out, nodes |-> ns2, boxes |-> b.boxes,
        calls |-> r.calls]

\* is_notrace looking the node type up under the primitive: the defaultdict
\* answers with an empty set.
is_notrace_wrong_key(op, node_constructor) ==
    node_constructor \in (IF op \in DOMAIN notrace_primitives
                          THEN notrace_primitives[op] ELSE {})

\* Line 67: f_wrapped in notrace_primitives[node_constructor]
is_notrace(op, node_constructor) == op \in notrace_primitives[node_constructor]

\* f_wrapped calling f_raw on argvals at line 73 instead of re-entering
\* itself.
f_wrapped_no_reentry(op, args, kwargs, ns, bs, calls) ==
    LET found == find_top_boxed_args(args, bs, ns) IN
    IF found.boxes # <<>>
    THEN LET argvals == subvals(args, UnboxedPairs(found.boxes, bs))
             r == direct_call(op, argvals, kwargs, ns, bs, calls)
         IN IF is_notrace(op, found.node_type) \/ r.err # "none"
            THEN r
            ELSE boxed_result(op, found, argvals, kwargs, r, bs)
    ELSE direct_call(op, args, kwargs, ns, bs, calls)

\* f_wrapped(*args, **kwargs) of primitive(f_raw), on the heaps ns and bs.
\* The result is the value returned (or the failure raised), the heaps and
\* the invocations of f_raw.  A failure of the inner call propagates.
RECURSIVE f_wrapped(_, _, _, _, _, _)
f_wrapped(op, args, kwargs, ns, bs, calls) ==
    LET found == find_top_boxed_args(args, bs, ns) IN
    IF found.boxes # <<>>
    THEN LET argvals == subvals(args, UnboxedPairs(found.boxes, bs)) IN
         IF is_notrace(op, found.node_type)
         THEN f_wrapped(op, argvals, kwargs, ns, bs, calls)
         ELSE LET r == f_wrapped(op, argvals, kwargs, ns, bs, calls) IN
              IF r.err # "none"
              THEN r
              ELSE boxed_result(op, found, argvals, kwargs, r, bs)
    ELSE direct_call(op, args, kwargs, ns, bs, calls)

----------------------------------------------------------------------------
(* The trace stack and trace().                                            *)

\* new_trace_enter without the increment.
new_trace_enter_same(t) == t

\* TraceStack.new_trace up to its yield: self.top += 1; yield self.top
new_trace_enter(t) == t + 1

\* new_trace_exit without the decrement.
new_trace_exit_same(t) == t

\* TraceStack.new_trace after its yield, when the with-body has returned:
\* the generator is resumed and runs self.top -= 1.
new_trace_exit(t) == t - 1

\* TraceStack.new_trace when the with-body has raised: the exception is thrown
\* into the generator at its yield, which is not inside a try, so the
\* generator ends there and self.top -= 1 never runs.
new_trace_throw(t) == t

\* trace_result accepting a box of any trace.
trace_result_any_box(end_box, start_box, bs) ==
    IF isbox(end_box)
    THEN [out |-> bs[end_box.n].value, node |-> bs[end_box.n].node, warned |-> FALSE]
    ELSE [out |-> end_box, node |-> 0, warned |-> TRUE]

\* trace_result unwrapping a box of another trace on the independent path.
trace_result_unwrapping(end_box, start_box, bs) ==
    IF isbox(end_box) /\ bs[end_box.n].trace = bs[start_box.n].trace
    THEN [out |-> bs[end_box.n].value, node |-> bs[end_box.n].node, warned |-> FALSE]
    ELSE [out |-> IF isbox(end_box) THEN bs[end_box.n].value ELSE end_box,
          node |-> 0, warned |-> TRUE]

\* trace_result accepting only a box built after the start box.
trace_result_fresh_only(end_box, start_box, bs) ==
    IF /\ isbox(end_box)
       /\ bs[end_box.n].trace = bs[start_box.n].trace
       /\ end_box.n >= start_box.n
    THEN [out |-> bs[end_box.n].value, node |-> bs[end_box.n].node, warned |-> FALSE]
    ELSE [out |-> end_box, node |-> 0, warned |-> TRUE]

\* trace(): what it returns for the result end_box of fun, given start_box.
trace_result(end_box, start_box, bs) ==
    IF isbox(end_box) /\ bs[end_box.n].trace = bs[start_box.n].trace
    THEN [out |-> bs[end_box.n].value, node |-> bs[end_box.n].node, warned |-> FALSE]
    ELSE [out |-> end_box, node |-> 0, warned |-> TRUE]

----------------------------------------------------------------------------
(* The record of the last operation.                                       *)

Last(kind, op, args, kwargs, out, node, err, calls, found, tid, top0, warned) ==
    [kind |-> kind, op |-> op, args |-> args, kwargs |-> kwargs, out |-> out,
     node |-> node, err |-> err, calls |-> calls, found |-> found, tid |-> tid,
     top0 |-> top0, nodes0 |-> nodes, boxes0 |-> boxes,
     warned |-> warned, start_box |-> NoneV]

----------------------------------------------------------------------------
(* unary_to_nary (wrap_util.py).  An argument of the wrapped function is   *)
(* a number; argnum is [kind |-> "int", v |-> i] for an index and          *)
(* [kind |-> "tuple", v |-> <<i, ...>>] for a tuple of indices.  The point *)
(* handed to unary_f for an index is a number, for a tuple a tuple.        *)

NaryVals == {10, 11}
NaryPoints == {20, 21}
NaryKwargs == {0, 1}
NaryArgLists == UNION {[1..k -> NaryVals] : k \in 1..MaxNaryArgs}
IntArgnum(i) == [kind |-> "int", v |-> i]
TupleArgnum(t) == [kind |-> "tuple", v |-> t]
Argnums ==
    {IntArgnum(i) : i \in 0..(MaxNaryArgs - 1)}
    \cup {TupleArgnum(t) : t \in UNION {[1..k -> 0..(MaxNaryArgs - 1)] :
                                            k \in 1..MaxArgnum}}
\* The points an operator evaluates unary_f at.
PointsFor(argnum) ==
    IF argnum.kind = "int"
    THEN NaryPoints
    ELSE UNION {[1..k -> NaryPoints] : k \in 1..MaxArgnum}

\* zip(argnum, x): the pairs up to the end of the shorter of the two.
zip(argnum, x) ==
    [k \in 1..(IF Len(argnum) <= Len(x) THEN Len(argnum) ELSE Len(x)) |->
        [argnum |-> argnum[k], val |-> x[k]]]

\* Lines 64-67 succeed: every index is one of args (no IndexError).
nary_in_range(argnum, args) ==
    IF argnum.kind = "int"
    THEN argnum.v < Len(args)
    ELSE \A k \in 1..Len(argnum.v) : argnum.v[k] < Len(args)

\* Lines 64-67: x = args[argnum], or tuple(args[i] for i in argnum).
nary_x(argnum, args) ==
    IF argnum.kind = "int"
    THEN args[argnum.v + 1]
    ELSE [k \in 1..Len(argnum.v) |-> args[argnum.v[k] + 1]]

\* unary_f substituting at position 0 whatever argnum says.
unary_f_first_position(argnum, args, kwargs, x) ==
    [args |-> subvals(args, <<[argnum |-> 0,
                               val |-> IF argnum.kind = "int" THEN x ELSE x[1]]>>),
     kwargs |-> kwargs]

\* unary_f(x), lines 48-62, in the closure of nary_f(*args, **kwargs): the
\* call fun(*subargs, **kwargs) it makes.
unary_f(argnum, args, kwargs, x) ==
    LET subargs == IF argnum.kind = "int"
                   THEN subvals(args, <<[argnum |-> argnum.v, val |-> x]>>)
                   ELSE subvals(args, zip(argnum.v, x))
    IN [args |-> subargs, kwargs |-> kwargs]

NoCall == [args |-> <<>>, kwargs |-> 0]
NaryIdle == [pc |-> "idle", argnum |-> IntArgnum(0), args |-> <<>>, kwargs |-> 0,
             x |-> 0, n |-> 0, point |-> 0, call |-> NoCall]

----------------------------------------------------------------------------
(* The state after import: an empty registry, no trace.                    *)

Init ==
    /\ top = -1
    /\ frames = <<>>
    /\ nodes = <<>>
    /\ boxes = <<>>
    /\ type_mappings = [t \in {} |-> "FloatBox"]
    /\ box_types = {}
    /\ notrace_primitives = [v \in NodeTypes \cup {"NoneType"} |-> {}]
    /\ last = Last("init", "none", <<>>, NoneV, NoneV, 0, "none", <<>>, NoFound,
                   -1, -1, FALSE)
    /\ nary = NaryIdle

\* Box.register(cls, value_type)
Register(cls, value_type) ==
    /\ box_types' = box_types \cup {cls}
    /\ type_mappings' =
           [t \in DOMAIN type_mappings \cup {value_type, cls} |->
               IF t \in {value_type, cls} THEN cls ELSE type_mappings[t]]
    /\ last' = Last("register", cls, <<>>, NoneV, NoneV, 0, "none", <<>>, NoFound,
                    -1, top, FALSE)
    /\ UNCHANGED <<top, frames, nodes, boxes, notrace_primitives, nary>>

\* register_notrace(trace_type, primitive_fun)
register_notrace(trace_type, primitive_fun) ==
    /\ notrace_primitives' =
           [notrace_primitives EXCEPT ![trace_type] = @ \cup {primitive_fun}]
    /\ last' = Last("register_notrace", primitive_fun, <<>>, NoneV, NoneV, 0,
                    "none", <<>>, NoFound, -1, top, FALSE)
    /\ UNCHANGED <<top, frames, nodes, boxes, type_mappings, box_types, nary>>

\* trace(start_node, fun, x) up to the call of fun: the caller's new_root, the
\* entry of the with-block and new_box.  When new_box raises, the exception
\* leaves the with-block and trace() at once.
TraceEnter(cls, x) ==
    /\ top < MaxTop
    /\ Len(nodes) < MaxNodes
    /\ LET t == new_trace_enter(top)
           ns == Append(nodes, new_root(cls, x))
           b == new_box(x, t, Len(ns), boxes)
       IN /\ nodes' = ns
          /\ boxes' = b.boxes
          /\ IF b.err = "none"
             THEN /\ top' = t
                  /\ frames' = Append(frames, [tid |-> t, start_box |-> b.out,
                                               top0 |-> top])
             ELSE /\ top' = new_trace_throw(t)
                  /\ frames' = frames
          /\ last' = [Last("enter", "trace", <<x>>, NoneV, b.out, Len(ns), b.err,
                           <<>>, NoFound, t, top, FALSE)
                          EXCEPT !.start_box = b.out]
    /\ UNCHANGED <<type_mappings, box_types, notrace_primitives, nary>>

\* fun returns end_box: lines 40-44 of trace() and the exit of the with-block.
TraceReturn(end_box) ==
    /\ frames # <<>>
    /\ LET f == frames[Len(frames)]
           r == trace_result(end_box, f.start_box, boxes)
       IN /\ last' = [Last("return", "trace", <<end_box>>, NoneV, r.out, r.node,
                           "none", <<>>, NoFound, f.tid, f.top0, r.warned)
                          EXCEPT !.start_box = f.start_box]
          /\ top' = new_trace_exit(top)
          /\ frames' = SubSeq(frames, 1, Len(frames) - 1)
    /\ UNCHANGED <<nodes, boxes, type_mappings, box_types, notrace_primitives, nary>>

\* fun raises: the exception leaves the with-block and trace().
TraceRaise ==
    /\ frames # <<>>
    /\ LET f == frames[Len(frames)]
       IN /\ last' = Last("raise", "trace", <<>>, NoneV, NoneV, 0, "raised",
                          <<>>, NoFound, f.tid, f.top0, FALSE)
          /\ top' = new_trace_throw(top)
          /\ frames' = SubSeq(frames, 1, Len(frames) - 1)
    /\ UNCHANGED <<nodes, boxes, type_mappings, box_types, notrace_primitives, nary>>

\* A call of a primitive-wrapped function, from the traced function or from
\* outside any trace.
Call(op, args, kwargs) ==
    LET r == f_wrapped(op, args, kwargs, nodes, boxes, <<>>) IN
    /\ Len(nodes) < MaxNodes
    /\ nodes' = r.nodes
    /\ boxes' = r.boxes
    /\ last' = Last("call", op, args, kwargs, r.out, 0, r.err, r.calls,
                    find_top_boxed_args(args, boxes, nodes), -1, top, FALSE)
    /\ UNCHANGED <<top, frames, type_mappings, box_types, notrace_primitives, nary>>

\* getval(x)
Getval(x) ==
    /\ last' = Last("getval", "getval", <<x>>, NoneV, getval(x, boxes), 0, "none",
                    <<>>, NoFound, -1, top, FALSE)
    /\ UNCHANGED <<top, frames, nodes, boxes, type_mappings, box_types,
                   notrace_primitives, nary>>

Next ==
    \/ \E cls \in BoxClasses, value_type \in RegTypes : Register(cls, value_type)
    \/ \E trace_type \in NotraceTypes, primitive_fun \in NotracePrims :
           register_notrace(trace_type, primitive_fun)
    \/ \E cls \in NodeTypes, x \in AllValues : TraceEnter(cls, x)
    \/ \E end_box \in ArgValues : TraceReturn(end_box)
    \/ TraceRaise
    \/ \E c \in Calls : Call(c.op, c.args, c.kwargs)
    \/ \E x \in AllValues : Getval(x)

Spec == Init /\ [][Next]_vars

----------------------------------------------------------------------------
(* The use of an operator built by unary_to_nary.                          *)

\* nary_f(*args, **kwargs) of nary_operator(fun, argnum), up to the call of
\* unary_operator(unary_f, x): an index out of range raises IndexError
\* before the operator is called.
NaryCall(argnum, args, kwargs) ==
    /\ nary.pc # "op"
    /\ nary' = IF nary_in_range(argnum, args)
               THEN [pc |-> "op", argnum |-> argnum, args |-> args,
                     kwargs |-> kwargs, x |-> nary_x(argnum, args), n |-> 0,
                     point |-> 0, call |-> NoCall]
               ELSE [NaryIdle EXCEPT !.pc = "raised"]
    /\ UNCHANGED <<top, frames, nodes, boxes, type_mappings, box_types,
                   notrace_primitives, last>>

\* The unary operator evaluates its point function: unary_f(x).
UnaryF(x) ==
    /\ nary.pc = "op"
    /\ nary.n < MaxEvals
    /\ nary' = [nary EXCEPT !.n = @ + 1, !.point = x,
                            !.call = unary_f(nary.argnum, nary.args, nary.kwargs, x)]
    /\ UNCHANGED <<top, frames, nodes, boxes, type_mappings, box_types,
                   notrace_primitives, last>>

\* The unary operator returns, and nary_f with it: no invocation is left.
NaryReturn ==
    /\ nary.pc = "op"
    /\ nary' = NaryIdle
    /\ UNCHANGED <<top, frames, nodes, boxes, type_mappings, box_types,
                   notrace_primitives, last>>

NaryNext ==
    \/ \E argnum \in Argnums, args \in NaryArgLists, kwargs \in NaryKwargs :
           NaryCall(argnum, args, kwargs)
    \/ \E x \in PointsFor(nary.argnum) : UnaryF(x)
    \/ NaryReturn

NarySpec == Init /\ [][NaryNext]_vars

----------------------------------------------------------------------------
(* The claims.                                                             *)

BoxedPositions(args) == {p \in 1..Len(args) : isbox(args[p])}
NoBoxIn(args) == BoxedPositions(args) = {}
TraceOf(x) == boxes[x.n].trace
MaxTrace(args) ==
    IF NoBoxIn(args) THEN -1
    ELSE CHOOSE m \in {TraceOf(args[p]) : p \in BoxedPositions(args)} :
             \A p \in BoxedPositions(args) : TraceOf(args[p]) <= m
TopPositions(args) ==
    {p \in BoxedPositions(args) : TraceOf(args[p]) = MaxTrace(args)}

\* C1: when the traced function raises, top is back at the value it had just
\* before that trace was entered once the exception has left trace().
C1_TopRestoredOnRaise == last.kind = "raise" => top = last.top0

\* C3: find_top_boxed_args returns exactly the (position, box) pairs of the
\* boxed arguments carrying the maximum trace id, in ascending position
\* order, with that maximum (-1 and no pair when nothing is boxed) and the
\* node type of the leftmost of them; the result is a function of the
\* positional arguments alone.
C3_FindTop ==
    last.kind = "call" =>
        LET f == last.found
            args == last.args
        IN /\ f.trace = MaxTrace(args)
           /\ {f.boxes[k].argnum + 1 : k \in 1..Len(f.boxes)} = TopPositions(args)
           /\ Len(f.boxes) = Cardinality(TopPositions(args))
           /\ \A k \in 1..Len(f.boxes) : f.boxes[k].box = args[f.boxes[k].argnum + 1]
           /\ \A k \in 1..(Len(f.boxes) - 1) :
                  f.boxes[k].argnum < f.boxes[k + 1].argnum
           /\ NoBoxIn(args) => f.boxes = <<>> /\ f.node_type = "NoneType"
           /\ ~NoBoxIn(args) =>
                  f.node_type = nodes[boxes[f.boxes[1].box.n].node].variant

\* C3 witness: a call on two different boxes of the same, maximal id.
C3_Witness ==
    /\ last.kind = "call"
    /\ Len(last.found.boxes) = 2
    /\ last.found.boxes[1].box # last.found.boxes[2].box
    /\ last.err = "none"

\* C5 as stated: a returned box of another trace comes back unwrapped, as
\* (its raw value, None).
C5_Original ==
    (last.kind = "return" /\ isbox(last.args[1])
        /\ TraceOf(last.args[1]) # last.tid)
    => (last.out = boxes[last.args[1].n].value /\ last.node = 0)

\* C5 amended: a returned box of another trace is reported independent and
\* comes back as it is, still boxed, as (that box, None).
C5_ForeignBoxReturnedAsIs ==
    (last.kind = "return" /\ isbox(last.args[1])
        /\ TraceOf(last.args[1]) # last.tid)
    => (last.out = last.args[1] /\ last.node = 0 /\ last.warned)

\* C5 witness: an inner trace has returned a box of the enclosing trace.
C5_Witness ==
    /\ last.kind = "return"
    /\ isbox(last.args[1])
    /\ frames # <<>>
    /\ TraceOf(last.args[1]) = frames[Len(frames)].tid
    /\ TraceOf(last.args[1]) # last.tid

\* C6: trace() returns (result.value, result.node) exactly when the result
\* of fun is a box whose trace id is the id issued for this entry; in every
\* other case the node returned is None.
C6_TraceResult ==
    last.kind = "return" =>
        LET e == last.args[1] IN
        IF isbox(e) /\ TraceOf(e) = last.tid
        THEN /\ last.out = boxes[e.n].value
             /\ last.node = boxes[e.n].node
             /\ last.node # 0
        ELSE last.node = 0

\* C6 witness: a trace returned the box of a tracked call made inside it.
C6_Witness ==
    /\ last.kind = "return"
    /\ last.node # 0
    /\ nodes[last.node].fun # "root"

\* C7: a call with no boxed positional argument invokes the raw function
\* once on the unchanged arguments, returns its result unboxed, allocates no
\* node and no box and leaves the trace stack as it was.
C7_ZeroOverhead ==
    (last.kind = "call" /\ NoBoxIn(last.args)) =>
        /\ last.calls = <<[args |-> last.args, kwargs |-> last.kwargs]>>
        /\ last.out = f_raw(last.op, last.args, last.kwargs).out
        /\ last.err = f_raw(last.op, last.args, last.kwargs).err
        /\ ~isbox(last.out)
        /\ nodes = last.nodes0
        /\ boxes = last.boxes0
        /\ top = last.top0

\* C7 witness: such a call inside an active trace, with operands.
C7_Witness ==
    /\ last.kind = "call"
    /\ NoBoxIn(last.args)
    /\ Len(last.args) = 2
    /\ last.err = "none"
    /\ frames # <<>>

\* C8: the ids of the active traces strictly increase with nesting depth,
\* hence are pairwise distinct.
C8_ActiveIdsIncrease ==
    \A i, j \in 1..Len(frames) : i < j => frames[i].tid < frames[j].tid

\* C8 witness: two nested traces entered after an earlier trace failed and
\* left top one too high.
C8_Witness ==
    /\ Len(frames) = 2
    /\ frames[1].tid = 1

\* The boxes found in x, x itself and the boxes nested in its value.
RECURSIVE BoxesIn(_)
BoxesIn(x) == IF isbox(x) THEN {x.n} \cup BoxesIn(boxes[x.n].value) ELSE {}
BoxesInArgs(args) == UNION {BoxesIn(args[p]) : p \in 1..Len(args)}

\* The number of box layers around x, and around the elements of args from
\* element i on.
RECURSIVE Layers(_)
Layers(x) == IF isbox(x) THEN 1 + Layers(boxes[x.n].value) ELSE 0
RECURSIVE LayersFrom(_, _)
LayersFrom(args, i) ==
    IF i > Len(args) THEN 0 ELSE Layers(args[i]) + LayersFrom(args, i + 1)
VariantOf(i) == nodes[boxes[i].node].variant
IsPrefix(s, t) == Len(s) <= Len(t) /\ \A i \in 1..Len(s) : t[i] = s[i]
NewNodes == (Len(last.nodes0) + 1)..Len(nodes)
Unwrapped(args) == [p \in 1..Len(args) |-> getval(args[p], boxes)]

\* A call with exactly one box of the deepest trace among its positional
\* arguments, at position pB, and a box of a shallower trace at position pA.
NestedCase(pA, pB) ==
    /\ last.kind = "call"
    /\ pA \in BoxedPositions(last.args)
    /\ TopPositions(last.args) = {pB}
    /\ TraceOf(last.args[pA]) < TraceOf(last.args[pB])

\* C2 as stated: the call produces the node of B, with the node of the B-box
\* as its only parent, and nothing else: the A-box is not unwrapped (the raw
\* function receives it as it is) and no node is built for trace A.
C2_Original ==
    \A pA, pB \in 1..Len(last.args) :
        (NestedCase(pA, pB) /\ last.err = "none") =>
            /\ Len(nodes) = Len(last.nodes0) + 1
            /\ nodes[Len(nodes)].variant = VariantOf(last.args[pB].n)
            /\ nodes[Len(nodes)].parents = <<boxes[last.args[pB].n].node>>
            /\ \A c \in 1..Len(last.calls) : last.calls[c].args[pA] = last.args[pA]

\* C2 amended: only the B-box is tracked by the outermost invocation: the
\* box returned carries the id of B and a node of B's variant whose only
\* parent is the node of the B-box, at the position of the B-box.  The A-box
\* is not opaque to the call as a whole: the re-entrant invocation on the
\* partially unwrapped arguments unwraps it and builds a node for trace A
\* with the node of the A-box among its parents, and the raw function never
\* receives a box.  (For a primitive not registered notrace, when the raw
\* function returns normally.)
C2_NestedIsolation ==
    \A pA, pB \in 1..Len(last.args) :
        (/\ NestedCase(pA, pB)
         /\ last.err = "none"
         /\ \A v \in NodeTypes : last.op \notin notrace_primitives[v]) =>
            /\ isbox(last.out)
            /\ TraceOf(last.out) = TraceOf(last.args[pB])
            /\ boxes[last.out.n].node = Len(nodes)
            /\ nodes[Len(nodes)].variant = VariantOf(last.args[pB].n)
            /\ nodes[Len(nodes)].parents = <<boxes[last.args[pB].n].node>>
            /\ nodes[Len(nodes)].parent_argnums = <<pB - 1>>
            /\ nodes[Len(nodes)].fun = last.op
            /\ \E k \in NewNodes \ {Len(nodes)} :
                   \E q \in 1..Len(nodes[k].parents) :
                       nodes[k].parents[q] = boxes[last.args[pA].n].node
            /\ Len(last.calls) = 1
            /\ NoBoxIn(last.calls[1].args)

\* C2 witness: a call on the seed box of an outer VJP trace and the seed box
\* of an inner JVP trace has returned.
C2_Witness ==
    \E pA, pB \in 1..Len(last.args) :
        /\ NestedCase(pA, pB)
        /\ last.err = "none"
        /\ Len(frames) = 2
        /\ last.args[pA] = frames[1].start_box
        /\ last.args[pB] = frames[2].start_box
        /\ VariantOf(last.args[pA].n) # VariantOf(last.args[pB].n)
        /\ \A v \in NodeTypes : last.op \notin notrace_primitives[v]

\* C4 as stated: a call with a boxed positional argument allocates exactly
\* one node, whatever the trace levels of its arguments, and changes no
\* existing node or box.
C4_Original ==
    (last.kind = "call" /\ ~NoBoxIn(last.args)) =>
        /\ Len(nodes) = Len(last.nodes0) + 1
        /\ IsPrefix(last.nodes0, nodes)
        /\ IsPrefix(last.boxes0, boxes)

\* C4 amended: a call with a boxed positional argument allocates one node
\* per trace level it resolves, not one per call: exactly one when all its
\* boxed arguments carry the same trace id and wrap unboxed values (the
\* primitive not being notrace for their node type and the raw function
\* returning normally), never more than there are box layers around its
\* arguments (a box that wraps a box counting twice) and never fewer than
\* the boxes it allocates; it changes no existing node or box.
C4_NodesPerLevel ==
    (last.kind = "call" /\ ~NoBoxIn(last.args)) =>
        /\ IsPrefix(last.nodes0, nodes)
        /\ IsPrefix(last.boxes0, boxes)
        /\ Len(nodes) - Len(last.nodes0) <= LayersFrom(last.args, 1)
        /\ Len(boxes) - Len(last.boxes0) <= Len(nodes) - Len(last.nodes0)
        /\ (/\ TopPositions(last.args) = BoxedPositions(last.args)
            /\ \A p \in BoxedPositions(last.args) :
                   ~isbox(boxes[last.args[p].n].value)
            /\ last.op \notin notrace_primitives[last.found.node_type]
            /\ f_raw(last.op, Unwrapped(last.args), last.kwargs).err = "none")
           => Len(nodes) = Len(last.nodes0) + 1

\* C4 witness: a call on boxes of two trace levels has allocated two nodes.
C4_Witness ==
    /\ last.kind = "call"
    /\ Cardinality({TraceOf(last.args[p]) : p \in BoxedPositions(last.args)}) = 2
    /\ Len(nodes) = Len(last.nodes0) + 2
    /\ Len(boxes) = Len(last.boxes0) + 2

\* The primitive op is registered notrace for the node type of box i.
Exempt(op, i) == op \in notrace_primitives[VariantOf(i)]

\* C9 as stated: a call of a primitive registered notrace for V with a
\* positional argument boxed under a trace of node type V returns the raw
\* result unboxed and builds no node.
C9_Original ==
    (/\ last.kind = "call"
     /\ \E p \in BoxedPositions(last.args) : Exempt(last.op, last.args[p].n))
    => (~isbox(last.out) /\ nodes = last.nodes0)

\* What trace() returns when the function of the innermost active trace
\* calls op on its boxed argument and returns the result of that call.
TraceOfOnly(op) ==
    LET f == frames[Len(frames)]
        r == f_wrapped(op, <<f.start_box>>, NoneV, nodes, boxes, <<>>)
    IN [err |-> r.err, res |-> trace_result(r.out, f.start_box, r.boxes)]

\* C9 amended: when every box among the positional arguments, and every box
\* nested in the value of one, belongs to a trace for whose node type the
\* primitive is registered notrace, the call returns the raw function's
\* result on the fully unwrapped values, unboxed, and builds no node and no
\* box; tracing a function that only calls the primitive on such a seed
\* ends with no node, the output being reported independent.  A box of a
\* node type without the registration, beside the V-box or inside it, is
\* still tracked by the re-entrant call.
C9_NotraceExemption ==
    /\ (/\ last.kind = "call"
         /\ ~NoBoxIn(last.args)
         /\ \A i \in BoxesInArgs(last.args) : Exempt(last.op, i))
        => /\ last.out = f_raw(last.op, Unwrapped(last.args), last.kwargs).out
           /\ last.err = f_raw(last.op, Unwrapped(last.args), last.kwargs).err
           /\ last.calls = <<[args |-> Unwrapped(last.args), kwargs |-> last.kwargs]>>
           /\ ~isbox(last.out)
           /\ nodes = last.nodes0
           /\ boxes = last.boxes0
    /\ \A op \in Prims :
           (/\ frames # <<>>
            /\ \A i \in BoxesIn(frames[Len(frames)].start_box) : Exempt(op, i))
           => (TraceOfOnly(op).res.node = 0 /\ TraceOfOnly(op).res.warned)

\* C9 witness: inside a trace of a node type with the registration, the
\* primitive was called on the seed box, which wraps a box of an outer trace
\* of the same node type, and returned the raw result.
C9_Witness ==
    /\ last.kind = "call"
    /\ frames # <<>>
    /\ last.args = <<frames[Len(frames)].start_box>>
    /\ Cardinality(BoxesInArgs(last.args)) = 2
    /\ \A i \in BoxesInArgs(last.args) : Exempt(last.op, i)
    /\ last.err = "none"
    /\ ~isbox(last.out)

\* C10 as stated: for every value v whose type is a key of the registry,
\* every trace id t and node n, new_box(v, t, n) succeeds and
\* getval(new_box(v, t, n)) = v.
C10_Original ==
    \A v \in AllValues, t \in -1..MaxTop, n \in 1..Len(nodes) :
        v.ty \in DOMAIN type_mappings =>
            LET b == new_box(v, t, n, boxes) IN
            b.err = "none" /\ getval(b.out, b.boxes) = v

\* C10 amended: new_box(v, t, n) succeeds for every v whose type is a key of
\* the registry; getval(new_box(v, t, n)) = v when v is of a registered raw
\* type, and when v is itself a box it is getval(v), the raw value at the
\* bottom of v, and not v.  Every box built so far unwraps that way.
C10_RoundTrip ==
    /\ \A v \in AllValues, t \in -1..MaxTop, n \in 1..Len(nodes) :
           v.ty \in DOMAIN type_mappings =>
               LET b == new_box(v, t, n, boxes) IN
               /\ b.err = "none"
               /\ isbox(b.out)
               /\ b.boxes[b.out.n] = [cls |-> type_mappings[v.ty], value |-> v,
                                      trace |-> t, node |-> n]
               /\ ~isbox(v) => getval(b.out, b.boxes) = v
               /\ isbox(v) => /\ getval(b.out, b.boxes) = getval(v, boxes)
                              /\ getval(b.out, b.boxes) # v
    /\ (last.kind = "getval" /\ isbox(last.args[1])) =>
           /\ ~isbox(last.out)
           /\ last.out = getval(boxes[last.args[1].n].value, boxes)
           /\ ~isbox(boxes[last.args[1].n].value) =>
                  last.out = boxes[last.args[1].n].value

\* C10 witness: getval was applied to a box that wraps a box.
C10_Witness ==
    /\ last.kind = "getval"
    /\ isbox(last.args[1])
    /\ isbox(boxes[last.args[1].n].value)
    /\ last.out \in FloatVals

\* The primitive op is registered notrace for no node type.
Traced(op) == \A v \in NodeTypes : op \notin notrace_primitives[v]

\* C11: new_box fails with TypeError, naming the type, on every value whose
\* type has no registry entry, and constructs no box; the registry holds
\* nothing but what Box.register put there.  Hence trace() on a seed of an
\* unregistered type fails with that error without entering the function,
\* and so does a tracked primitive call on boxed arguments whose raw result
\* is of an unregistered type; neither constructs a box.
C11_UnregisteredTypeRejected ==
    /\ \A v \in AllValues \cup {NoneV}, t \in -1..MaxTop, n \in 1..Len(nodes) :
           v.ty \notin DOMAIN type_mappings =>
               /\ new_box(v, t, n, boxes).err = "TypeError"
               /\ new_box(v, t, n, boxes).boxes = boxes
               /\ ~isbox(new_box(v, t, n, boxes).out)
               /\ new_box_message(v)[2] = v.ty
    /\ DOMAIN type_mappings \subseteq RegTypes \cup BoxClasses
    /\ \A i \in 1..Len(boxes) : boxes[i].value.ty \in RegTypes \cup BoxClasses
    /\ (last.kind = "enter" /\ last.args[1].ty \notin DOMAIN type_mappings) =>
           /\ last.err = "TypeError"
           /\ boxes = last.boxes0
           /\ ~isbox(last.out)
    /\ (/\ last.kind = "call"
         /\ ~NoBoxIn(last.args)
         /\ Traced(last.op)
         /\ f_raw(last.op, Unwrapped(last.args), last.kwargs).err = "none"
         /\ f_raw(last.op, Unwrapped(last.args), last.kwargs).out.ty
                \notin DOMAIN type_mappings) =>
           /\ last.err = "TypeError"
           /\ boxes = last.boxes0
           /\ ~isbox(last.out)

\* C11 witness: inside an active trace a tracked call on the seed box, whose
\* raw result is a str, has failed with TypeError.
C11_Witness ==
    /\ last.kind = "call"
    /\ frames # <<>>
    /\ last.args = <<frames[Len(frames)].start_box>>
    /\ f_raw(last.op, Unwrapped(last.args), last.kwargs).out.ty = "str"
    /\ last.err = "TypeError"

\* The positions (1-based) that argnum names.
ArgnumPositions(argnum) ==
    IF argnum.kind = "int" THEN {argnum.v + 1}
    ELSE {argnum.v[k] + 1 : k \in 1..Len(argnum.v)}

\* C12: the operator receives x = args[argnum], or the tuple of the args[i]
\* for i in argnum in the order of argnum; every evaluation of the point
\* function at x' calls fun with the kwargs of the call and with an argument
\* list as long as args that equals args at every position argnum does not
\* name and holds x' (the component of x' paired with that position, the
\* last one when argnum names a position twice) at the positions it names,
\* for an x' with as many components as argnum; the args of the call are
\* the same after any number of evaluations.
C12_NaryArgnumSelection ==
    /\ nary.pc = "op" =>
           /\ nary.argnum.kind = "int" => nary.x = nary.args[nary.argnum.v + 1]
           /\ nary.argnum.kind = "tuple" =>
                  /\ Len(nary.x) = Len(nary.argnum.v)
                  /\ \A k \in 1..Len(nary.x) :
                         nary.x[k] = nary.args[nary.argnum.v[k] + 1]
    /\ nary.n > 0 =>
           /\ nary.call.kwargs = nary.kwargs
           /\ Len(nary.call.args) = Len(nary.args)
           /\ \A p \in 1..Len(nary.args) \ ArgnumPositions(nary.argnum) :
                  nary.call.args[p] = nary.args[p]
           /\ nary.argnum.kind = "int" =>
                  nary.call.args[nary.argnum.v + 1] = nary.point
           /\ (nary.argnum.kind = "tuple"
                   /\ Len(nary.point) = Len(nary.argnum.v)) =>
                  \A k \in 1..Len(nary.point) :
                      (\A j \in (k + 1)..Len(nary.point) :
                           nary.argnum.v[j] # nary.argnum.v[k])
                      => nary.call.args[nary.argnum.v[k] + 1] = nary.point[k]

\* C12 witness: the second evaluation of the point function of an operator
\* applied with argnum = (0, 2) to a function of three arguments.
C12_Witness ==
    /\ nary.pc = "op"
    /\ nary.n = 2
    /\ nary.argnum = TupleArgnum(<<0, 2>>)
    /\ Len(nary.args) = 3
    /\ nary.point = <<20, 21>>
    /\ nary.call.args = <<20, nary.args[2], 21>>
    /\ nary.kwargs = 1

\* C13: every derived node has as many tracked argnums as parents, the
\* argnums strictly ascending and the parents older nodes; a node built by
\* the last call has as its i-th parent the node of the box that sat at
\* position tracked_argnums[i] when the node was built (the argument of the
\* call, or the box it wraps once an inner level has unwrapped it).  A call
\* that is tracked at its own level and returns normally returns a box of
\* the newest node, whose argnums are exactly the positions of the boxed
\* arguments of maximum trace id, whose i-th parent is the node of the
\* argument at tracked_argnums[i], and which carries that maximum id.
C13_NodeAlignment ==
    /\ \A k \in 1..Len(nodes) :
           /\ Len(nodes[k].parent_argnums) = Len(nodes[k].parents)
           /\ \A i \in 1..(Len(nodes[k].parents) - 1) :
                  nodes[k].parent_argnums[i] < nodes[k].parent_argnums[i + 1]
           /\ \A i \in 1..Len(nodes[k].parents) :
                  nodes[k].parents[i] \in 1..(k - 1)
           /\ nodes[k].fun = "root" <=> nodes[k].parents = <<>>
    /\ last.kind = "call" =>
           \A k \in NewNodes : \A i \in 1..Len(nodes[k].parents) :
               /\ nodes[k].parent_argnums[i] + 1 \in BoxedPositions(last.args)
               /\ \E b \in BoxesIn(last.args[nodes[k].parent_argnums[i] + 1]) :
                      boxes[b].node = nodes[k].parents[i]
    /\ (/\ last.kind = "call"
         /\ ~NoBoxIn(last.args)
         /\ last.err = "none"
         /\ last.op \notin notrace_primitives[last.found.node_type]) =>
           LET nd == nodes[Len(nodes)] IN
           /\ Len(nodes) > Len(last.nodes0)
           /\ isbox(last.out)
           /\ boxes[last.out.n].node = Len(nodes)
           /\ TraceOf(last.out) = MaxTrace(last.args)
           /\ {nd.parent_argnums[i] + 1 : i \in 1..Len(nd.parents)}
                  = TopPositions(last.args)
           /\ \A i \in 1..Len(nd.parents) :
                  nd.parents[i] = boxes[last.args[nd.parent_argnums[i] + 1].n].node

\* C13 witness: a tracked call on two boxes of the same trace that have
\* different nodes has built a node with both as parents.
C13_Witness ==
    /\ last.kind = "call"
    /\ last.err = "none"
    /\ Len(last.args) = 2
    /\ TopPositions(last.args) = {1, 2}
    /\ isbox(last.out)
    /\ Len(nodes[Len(nodes)].parents) = 2
    /\ nodes[Len(nodes)].parents[1] # nodes[Len(nodes)].parents[2]
    /\ nodes[Len(nodes)].parent_argnums = <<0, 1>>

\* C14: the graph is append-only.  Whatever the last operation was (entering
\* or leaving trace(), a call of a primitive with all the re-entrant calls,
\* new_box and find_top_boxed_args it makes, getval, a registration), every
\* node and every box that existed before it is still there, at the same
\* place and with the same fields; leaving a trace and getval construct
\* nothing.
C14_AppendOnly ==
    /\ Len(last.nodes0) <= Len(nodes)
    /\ Len(last.boxes0) <= Len(boxes)
    /\ \A k \in 1..Len(last.nodes0) : nodes[k] = last.nodes0[k]
    /\ \A i \in 1..Len(last.boxes0) :
           /\ boxes[i].value = last.boxes0[i].value
           /\ boxes[i].trace = last.boxes0[i].trace
           /\ boxes[i].node = last.boxes0[i].node
           /\ boxes[i].cls = last.boxes0[i].cls
    /\ last.kind \in {"getval", "return", "raise"} =>
           (nodes = last.nodes0 /\ boxes = last.boxes0)

\* C14 witness: inside a nested trace, a call on the seed boxes of both
\* traces has added two nodes and two boxes to the two that existed.
C14_Witness ==
    /\ last.kind = "call"
    /\ Len(frames) = 2
    /\ Len(last.boxes0) = 2
    /\ Len(last.nodes0) = 2
    /\ Len(boxes) = 4
    /\ Len(nodes) = 4
    /\ BoxesInArgs(last.args) = {1, 2}

\* The shapes of a call of "add" on one tracked value x: add(x), add(x, c)
\* and add(c, x) for the float c, and the position of x in each.
ChainShapes == {"only", "left", "right"}
ChainArgs(shape, x) ==
    LET c == CHOOSE v \in FloatVals : TRUE IN
    IF shape = "only" THEN <<x>> ELSE IF shape = "left" THEN <<x, c>> ELSE <<c, x>>
ChainArgnum(shape) == IF shape = "right" THEN 1 ELSE 0
Chains == UNION {[1..n -> ChainShapes] : n \in 1..MaxChain}

\* The calls of the shapes ps, from the i-th on, each applied to the result
\* of the one before, the first to x, on the heaps ns and bs.
RECURSIVE Chain(_, _, _, _, _)
Chain(ps, i, x, ns, bs) ==
    IF i > Len(ps)
    THEN [err |-> "none", out |-> x, nodes |-> ns, boxes |-> bs]
    ELSE LET r == f_wrapped("add", ChainArgs(ps[i], x), NoneV, ns, bs, <<>>) IN
         IF r.err # "none"
         THEN [err |-> r.err, out |-> r.out, nodes |-> r.nodes, boxes |-> r.boxes]
         ELSE Chain(ps, i + 1, r.out, r.nodes, r.boxes)

\* The node reached from node k of ns by following the parent link j times
\* (0, which is no node, when a node on the way has not exactly one parent).
RECURSIVE Ancestor(_, _, _)
Ancestor(k, j, ns) ==
    IF j = 0 THEN k
    ELSE IF k = 0 \/ Len(ns[k].parents) # 1 THEN 0
    ELSE Ancestor(ns[k].parents[1], j - 1, ns)

\* C15: when the function of the innermost active trace applies a chain of
\* n tracked calls to its seed box, each to the result of the one before,
\* and returns the last result, trace() returns a node from which n parent
\* links lead to the start node of that trace and no fewer do; the j-th
\* node on the way up has exactly one parent and its tracked_argnums is the
\* one position at which the tracked value was passed to its call.  Each
\* single call on one boxed argument adds one such link.
C15_ChainShape ==
    /\ (frames # <<>> /\ ~Exempt("add", frames[Len(frames)].start_box.n)) =>
           \A ps \in Chains :
               LET sb == frames[Len(frames)].start_box
                   c == Chain(ps, 1, sb, nodes, boxes)
                   res == trace_result(c.out, sb, c.boxes)
                   n == Len(ps)
               IN /\ c.err = "none"
                  /\ ~res.warned
                  /\ res.node # 0
                  /\ Ancestor(res.node, n, c.nodes) = boxes[sb.n].node
                  /\ \A j \in 0..(n - 1) :
                         LET a == Ancestor(res.node, j, c.nodes) IN
                         /\ a # boxes[sb.n].node
                         /\ Len(c.nodes[a].parents) = 1
                         /\ c.nodes[a].parent_argnums = <<ChainArgnum(ps[n - j])>>
                         /\ c.nodes[a].fun = "add"
    /\ \A p \in 1..Len(last.args) :
           (/\ last.kind = "call"
            /\ BoxedPositions(last.args) = {p}
            /\ last.err = "none"
            /\ ~Exempt(last.op, last.args[p].n)) =>
               /\ isbox(last.out)
               /\ boxes[last.out.n].node = Len(nodes)
               /\ nodes[Len(nodes)].parents = <<boxes[last.args[p].n].node>>
               /\ nodes[Len(nodes)].parent_argnums = <<p - 1>>
               /\ TraceOf(last.out) = TraceOf(last.args[p])

\* C15 witness: a trace has returned the node of the second of two chained
\* calls on its seed, the second with the tracked value at position 1.
C15_Witness ==
    /\ last.kind = "return"
    /\ last.node = 3
    /\ Len(nodes) = 3
    /\ nodes[3].parents = <<2>>
    /\ nodes[3].parent_argnums = <<1>>
    /\ nodes[2].parents = <<1>>
    /\ nodes[2].parent_argnums = <<0>>
    /\ nodes[1].fun = "root"
    /\ last.tid = 0
    /\ boxes[1].node = 1

\* trace(cls.new_root(), fun, x) as a whole for the function fun that
\* returns c at once: the entry of the with-block, new_box, fun, lines
\* 40-44 and the exit of the with-block.
ConstTrace(cls, x, c) ==
    LET t == new_trace_enter(top)
        ns == Append(nodes, new_root(cls, x))
        b == new_box(x, t, Len(ns), boxes)
    IN IF b.err # "none"
       THEN [err |-> b.err, out |-> NoneV, node |-> 0, warned |-> FALSE,
             top |-> new_trace_throw(t)]
       ELSE LET r == trace_result(c, b.out, b.boxes) IN
            [err |-> "none", out |-> r.out, node |-> r.node, warned |-> r.warned,
             top |-> new_trace_exit(t)]

\* C16: from every state, tracing a function that ignores its argument and
\* returns the non-box constant c at once, on a seed of a registered type
\* (a float, or a box), reports the output independent and returns
\* (c, None), and top is then what it was before the call; every trace
\* whose function returned a non-box value returned (that value, None) with
\* the warning.
C16_ConstantIsIndependent ==
    /\ \A cls \in NodeTypes, x \in AllValues, c \in RawValues \cup {NoneV} :
           x.ty \in DOMAIN type_mappings =>
               LET r == ConstTrace(cls, x, c) IN
               /\ r.err = "none"
               /\ r.out = c
               /\ r.node = 0
               /\ r.warned
               /\ r.top = top
    /\ (last.kind = "return" /\ ~isbox(last.args[1])) =>
           /\ last.out = last.args[1]
           /\ last.node = 0
           /\ last.warned

\* C16 witness: the first trace of the program, of a function that returned
\* a float at once, has returned it with the warning and top is -1 again.
C16_Witness ==
    /\ last.kind = "return"
    /\ last.args[1] \in FloatVals
    /\ last.out = last.args[1]
    /\ last.warned
    /\ last.top0 = -1
    /\ top = -1
    /\ Len(nodes) = 1
    /\ Len(boxes) = 1
    /\ frames = <<>>

NewBoxes == (Len(last.boxes0) + 1)..Len(boxes)

\* C17: whatever boxes the positional arguments of a call carry, of however
\* many traces and however nested, the raw function is invoked once, on the
\* fully unwrapped positional arguments and the keyword argument of the
\* call, and never sees a box among them.  The levels are resolved deepest
\* id first by re-entry: when the call is tracked and no box wraps a box,
\* one box is built per trace id among the arguments, the box of a shallower
\* id before (inside) the box of a deeper id, the deepest being returned.
C17_RawNeverSeesBox ==
    last.kind = "call" =>
        /\ Len(last.calls) = 1
        /\ \A c \in 1..Len(last.calls) : NoBoxIn(last.calls[c].args)
        /\ last.calls[1].args = Unwrapped(last.args)
        /\ last.calls[1].kwargs = last.kwargs
        /\ (/\ Traced(last.op)
            /\ last.err = "none"
            /\ \A p \in BoxedPositions(last.args) :
                   ~isbox(boxes[last.args[p].n].value)) =>
               /\ {boxes[i].trace : i \in NewBoxes}
                      = {TraceOf(last.args[p]) : p \in BoxedPositions(last.args)}
               /\ \A i, j \in NewBoxes :
                      /\ i < j => boxes[i].trace < boxes[j].trace
                      /\ i + 1 = j => boxes[j].value = BoxRef(i)
               /\ NewBoxes # {} => last.out = BoxRef(Len(boxes))

\* C17 witness: a call with two positional arguments, boxes of two traces,
\* the deeper first, reached the raw function with two floats.
C17_Witness ==
    /\ last.kind = "call"
    /\ Len(last.args) = 2
    /\ BoxedPositions(last.args) = {1, 2}
    /\ TraceOf(last.args[1]) > TraceOf(last.args[2])
    /\ Len(last.calls) = 1
    /\ last.calls[1].args \in [1..2 -> FloatVals]
    /\ last.err = "none"

\* Node k is node s or descends from it through parent links.
RECURSIVE Descends(_, _)
Descends(k, s) ==
    k = s \/ \E i \in 1..Len(nodes[k].parents) : Descends(nodes[k].parents[i], s)
StartNode == boxes[last.start_box.n].node

\* C18 as stated: the node trace() returns, when it is not None, was
\* created during this invocation: it is the start node or descends from it.
C18_Original ==
    (last.kind = "return" /\ last.node # 0) =>
        /\ last.node >= StartNode
        /\ Descends(last.node, StartNode)

\* C18 amended: trace() returns a node exactly when the function returned a
\* box that carries the trace id issued to this invocation, and the node
\* is the node of that box.  A box of an enclosing active trace is never
\* accepted, and when no box older than the seed box carries this
\* invocation's id the node is the start node or descends from it.  Trace
\* ids are reused once a trace has exited, so a box left over from an
\* earlier, exited trace that was issued the same id is accepted, with its
\* node of the earlier graph.
C18_AcceptedByTraceId ==
    last.kind = "return" =>
        LET e == last.args[1]
            sb == last.start_box
        IN /\ boxes[sb.n].trace = last.tid
           /\ last.node # 0 <=> (isbox(e) /\ boxes[e.n].trace = last.tid)
           /\ last.node # 0 => last.node = boxes[e.n].node
           /\ \A i \in 1..Len(frames) :
                  (isbox(e) /\ boxes[e.n].trace = frames[i].tid) => last.node = 0
           /\ (/\ last.node # 0
               /\ \A i \in 1..(sb.n - 1) : boxes[i].trace # last.tid)
              => Descends(last.node, StartNode)
           /\ (isbox(e) /\ e.n < sb.n /\ boxes[e.n].trace = last.tid)
              => (last.node = boxes[e.n].node /\ last.node < StartNode)

\* C18 witness: a trace has accepted the seed box of an earlier trace that
\* had exited and had been issued the same id.
C18_Witness ==
    /\ last.kind = "return"
    /\ last.node # 0
    /\ isbox(last.args[1])
    /\ last.args[1].n < last.start_box.n
    /\ nodes[last.node].fun = "root"
    /\ last.node < StartNode

====
